---- MODULE Spec2Model ----
(***************************************************************************)
(* Model of the txseq workflow scripts:                                    *)
(*   pipelines/pipeline_cram2fastq.py  (CRAM validation, cell grouping)    *)
(*   txseq/pipeline_bamqc.py           (BAM QC metrics and summary)        *)
(*                                                                         *)
(* Text (file contents, file names) is a sequence of tokens.  The          *)
(* characters the code parses on ("\t", "\n", ",", "#") and decimal digits *)
(* are always tokens of their own; a run of other characters (a directory  *)
(* prefix, a suffix, a name) is one token.                                 *)
(***************************************************************************)
EXTENDS Integers, Sequences, FiniteSets, TLC

\* ------------------------------ bounds ---------------------------------- *
\* exit statuses written by "echo $?" range over 0..MaxExit
MaxExit == 1
\* number of pipeline runs over the same working directory
MaxRuns == 2
\* number of cram files in data.dir
MaxCrams == 2

\* --------------------------- text helpers ------------------------------- *

NoFile == "NoFile"

TAB == "\t"
NL == "\n"
COMMA == ","
HASH == "#"

DigitChars == <<"0", "1", "2", "3", "4", "5", "6", "7", "8", "9">>

\* decimal text of a non-negative integer (the shell's $? expansion)
RECURSIVE Str(_)
Str(n) ==
    IF n < 10 THEN <<DigitChars[n + 1]>>
    ELSE Str(n \div 10) \o <<DigitChars[(n % 10) + 1]>>

DigitVal(c) == CHOOSE d \in 0..9 : DigitChars[d + 1] = c

\* int(text) for a text of decimal digits
RECURSIVE int(_)
int(s) ==
    IF Len(s) = 1 THEN DigitVal(s[1])
    ELSE 10 * int(SubSeq(s, 1, Len(s) - 1)) + DigitVal(s[Len(s)])

\* index of the first occurrence of token ch in s, 0 when there is none
IndexOf(s, ch) ==
    IF \E i \in 1..Len(s) : s[i] = ch
    THEN CHOOSE i \in 1..Len(s) : s[i] = ch /\ \A j \in 1..(i - 1) : s[j] # ch
    ELSE 0

\* str.split(sep)
RECURSIVE split(_, _)
split(s, sep) ==
    LET i == IndexOf(s, sep)
    IN  IF i = 0 THEN <<s>>
        ELSE <<SubSeq(s, 1, i - 1)>> \o split(SubSeq(s, i + 1, Len(s)), sep)

\* sep.join(parts)
RECURSIVE join(_, _)
join(parts, sep) ==
    IF Len(parts) = 0 THEN <<>>
    ELSE IF Len(parts) = 1 THEN parts[1]
    ELSE parts[1] \o <<sep>> \o join(Tail(parts), sep)

\* str.strip(ch): drop every leading and trailing ch
RECURSIVE strip(_, _)
strip(s, ch) ==
    IF s = <<>> THEN s
    ELSE IF s[1] = ch THEN strip(Tail(s), ch)
    ELSE IF s[Len(s)] = ch THEN strip(SubSeq(s, 1, Len(s) - 1), ch)
    ELSE s

\* iteration over an open text file: the records, each with its terminator
RECURSIVE readlines(_)
readlines(text) ==
    LET i == IndexOf(text, NL)
    IN  IF text = <<>> THEN <<>>
        ELSE IF i = 0 THEN <<text>>
        ELSE <<SubSeq(text, 1, i)>> \o readlines(SubSeq(text, i + 1, Len(text)))

\* str.startswith(ch)
startswith(s, ch) == Len(s) > 0 /\ s[1] = ch

\* concatenation of a sequence of texts
RECURSIVE Concat(_)
Concat(texts) ==
    IF texts = <<>> THEN <<>> ELSE Head(texts) \o Concat(Tail(texts))

\* sum() of a list of integers
RECURSIVE sum(_)
sum(xs) == IF xs = <<>> THEN 0 ELSE Head(xs) + sum(Tail(xs))

Range(f) == {f[x] : x \in DOMAIN f}

\* the orderings of a finite set
Orderings(S) ==
    {o \in [1..Cardinality(S) -> S] : \A i, j \in DOMAIN o : o[i] = o[j] => i = j}

EmptyDir == [x \in {} |-> <<>>]

\* a directory with file name holding text (created or overwritten)
WriteFile(dir, name, text) ==
    [n \in (DOMAIN dir) \cup {name} |-> IF n = name THEN text ELSE dir[n]]

\* ======================================================================== *
\*                     pipelines/pipeline_cram2fastq.py                     *
\* ======================================================================== *

\* ------------------------------ inputs ---------------------------------- *

\* the files that glob.glob("data.dir/*.cram") may find
CramFiles == { <<"data.dir/", "a", ".cram">>,
               <<"data.dir/", "d", ".cram">>,
               <<"data.dir/", "b", COMMA, "c", ".cram">> }

\* the sets of files data.dir may hold
CramSets == {S \in SUBSET CramFiles : Cardinality(S) <= MaxCrams}

\* the values the SM field of the first @RG header line may hold
SampleTags == { <<"x">>, <<"y">>, <<HASH, "x">> }

\* the exit statuses "$?" may expand to
ExitStatuses == 0..MaxExit

VARIABLES
    target,          \* the task named on the command line ("make <target>")
    pipelinePc,      \* the run: start, running, raised (idle: not started)
    run,             \* number of the pipeline run in this working directory
    crams,           \* glob.glob("data.dir/*.cram") of this run, in glob order
    header,          \* cram file |-> header["RG"][0]["SM"]
    keep_temporary,  \* PARAMS["keep_temporary"]
    validate_dir,    \* validate.cram.dir/*.validate : name |-> text
    validated,       \* cram files whose validateCramFiles job has completed
    validate_events, \* cram file |-> the P.run calls of its validation job
    ivPc,            \* inspectValidations: waiting, loop, closed, done, raised
    validation_pos,  \* number of validation files read by the loop
    exit_states,     \* inspectValidations: list of exit states
    outfile_handle,  \* inspectValidations: none, open, closed
    summary,         \* validate.cram.dir/summary.txt (text or NoFile)
    esPc,            \* extractSampleInformation: waiting, done
    cells_txt,       \* cell.info.dir/cells.txt (text or NoFile)
    cclPc,           \* cellCramLists: waiting, done, raised
    cell_dir,        \* cell.info.dir/*.cell : name |-> text
    c2fDone,         \* cell files whose cram2fastq job has ended
    c2f_events,      \* cell file |-> the P.run and os.unlink calls of its job
    c2f_raised       \* cell files whose cram2fastq job has raised

c2fVars == <<c2fDone, c2f_events, c2f_raised>>

targetVars == <<target, pipelinePc>>

cramVars == <<targetVars, run, crams, header, keep_temporary, validate_dir, validated,
              validate_events, ivPc, validation_pos, exit_states, outfile_handle, summary,
              esPc, cells_txt, cclPc, cell_dir, c2fVars>>

\* state of txseq/pipeline_bamqc.py, threePrimeBias
VARIABLES
    df,              \* the coverage histogram read by pd.read_csv
    tpbPc,           \* threePrimeBias: waiting, done
    bias,            \* threePrimeBias: the value of bias
    bias_file        \* <sample>.three.prime.bias (text or NoFile)

biasVars == <<df, tpbPc, bias, bias_file>>

\* state of txseq/pipeline_bamqc.py, fractionSpliced
VARIABLES
    bam,                \* the alignment records samtools view prints
    fsPc,               \* fractionSpliced: waiting, done, raised
    us,                 \* awk: count of reads without N in the CIGAR
    s,                  \* awk: count of reads with N in the CIGAR
    fraction_file,      \* <sample>.fraction.spliced (text or NoFile)
    fraction_sentinel   \* <sample>.fraction.spliced.sentinel exists

splicedVars == <<bam, fsPc, us, s, fraction_file, fraction_sentinel>>

\* state of txseq/pipeline_bamqc.py, the sample table and the task jobs
VARIABLES
    samples,            \* S.samples: sample_id |-> [paired]
    run_estimateLibraryComplexity,  \* PARAMS["run_estimateLibraryComplexity"]
    gtf_exists,         \* os.path.exists(gtf_path)
    reference_exists,   \* os.path.exists(reference_sequence)
    job,                \* the job being executed, NoJob when there is none
    jobPc,              \* idle, setup, checked, ran, raised
    touch_pos,          \* number of sentinels the job has touched
    sentinel_dir,       \* the sentinel files that exist
    ran,                \* jobs whose P.run call has returned
    failedJob           \* the job that raised, NoJob when none has

sampleVars == <<samples, run_estimateLibraryComplexity>>

jobVars == <<gtf_exists, reference_exists, job, jobPc, touch_pos,
             sentinel_dir, ran, failedJob>>

\* state of txseq/pipeline_bamqc.py, qcSummary
VARIABLES
    db,                 \* the project database: table name |-> set of rows
    qcPc,               \* qcSummary: waiting, done, raised
    qc_summary          \* rows written to bam.qc.dir/qc_summary.txt, or NoFile

qcVars == <<db, qcPc, qc_summary>>

bamqcVars == <<biasVars, splicedVars, sampleVars, jobVars, qcVars>>

\* ------------------------------ task graph ------------------------------ *

\* the functions that carry a ruffus decorator and so are tasks of the
\* pipeline; "full" is not one of them: line 387 calls follows(cram2fastq)
\* as a plain expression, without "@", and its result is dropped
PipelineTasks ==
    {"validateCramFiles", "inspectValidations", "extractSampleInformation",
     "cellCramLists", "cram2fastq"}

\* the names a command line may ask for
Targets == PipelineTasks \cup {"full"}

\* the tasks each task names in its decorators
Parents ==
    [ validateCramFiles |-> {},
      inspectValidations |-> {"validateCramFiles"},
      extractSampleInformation |-> {"inspectValidations"},
      cellCramLists |-> {"extractSampleInformation"},
      cram2fastq |-> {"cellCramLists", "extractSampleInformation"} ]

\* a task and everything upstream of it
RECURSIVE Upstream(_)
Upstream(task) ==
    {task} \cup UNION {Upstream(parent) : parent \in Parents[task]}

\* the tasks a run for each target takes in
UpstreamOf == [task \in PipelineTasks |-> Upstream(task)]

\* the run has resolved its target and the task is the target or upstream
\* of it
needed(task) ==
    /\ pipelinePc = "running"
    /\ target \in PipelineTasks
    /\ task \in UpstreamOf[target]

\* P.main: the target is looked up among the tasks of the pipeline; a name
\* that is not a task ends the run with an error before any task runs
pipeline_run ==
    /\ pipelinePc = "start"
    /\ pipelinePc' = IF target \in PipelineTasks THEN "running" ELSE "raised"
    /\ UNCHANGED <<target, run, crams, header, keep_temporary, validate_dir,
                   validated, validate_events, ivPc, validation_pos,
                   exit_states, outfile_handle, summary, esPc, cells_txt,
                   cclPc, cell_dir, c2fVars>>
    /\ UNCHANGED bamqcVars

\* ------------------------- validateCramFiles ---------------------------- *

\* a call of P.run() with the statement and the files it names
P_run(statement, files) ==
    [op |-> "P.run", statement |-> statement, files |-> files]

\* a call of os.unlink(temp_file)
os_unlink(file) == [op |-> "os.unlink", statement |-> "", files |-> <<file>>]

\* regex(r".*/(.*).cram"): the part between the directory and the suffix
regex_stem(path) == SubSeq(path, 2, Len(path) - 1)

\* r"validate.cram.dir/\1.validate"
validate_outfile(infile) ==
    <<"validate.cram.dir/">> \o regex_stem(infile) \o <<".validate">>

\* echo $? > %(outfile)s
echo_status(status) == Str(status) \o <<NL>>

\* one job per cram file; the statement ends with echo, so a failed
\* validation is recorded in the file and P.run() returns normally
validateCramFiles(infile) ==
    /\ needed("validateCramFiles")
    /\ infile \in Range(crams) \ validated
    /\ \E status \in ExitStatuses :
          validate_dir' = WriteFile(validate_dir, validate_outfile(infile),
                                    echo_status(status))
    /\ validated' = validated \cup {infile}
    /\ validate_events' =
          WriteFile(validate_events, infile,
                    <<P_run("cramtools qstat; echo $?",
                            <<infile, validate_outfile(infile)>>)>>)
    /\ UNCHANGED <<run, crams, header, keep_temporary, ivPc, validation_pos,
                   exit_states, outfile_handle, summary, esPc, cells_txt,
                   cclPc, cell_dir, c2fVars>>
    /\ UNCHANGED <<targetVars, bamqcVars>>

\* ------------------------- inspectValidations --------------------------- *

\* @merge(validateCramFiles, ...): the outputs of all its jobs, in job order
infiles == [i \in 1..Len(crams) |-> validate_outfile(crams[i])]

\* vf_handle.read().strip("\n")
read_exit_status(validation_file) == strip(validate_dir[validation_file], NL)

\* a summary line written without its line terminator
summary_line_unterminated(validation_file, exit_status) ==
    join(<<validation_file, exit_status>>, TAB)

\* "\t".join([validation_file, exit_status]) + "\n"
summary_line(validation_file, exit_status) ==
    join(<<validation_file, exit_status>>, TAB) \o <<NL>>

\* a test of the last exit state only
validation_failed_last(states) ==
    states # <<>> /\ states[Len(states)] # 0

\* sum(exit_states) != 0
validation_failed(states) == sum(states) # 0

\* outfile_handle = open(outfile, "w"); exit_states = []
inspectValidations_open ==
    /\ needed("inspectValidations")
    /\ ivPc = "waiting"
    /\ validated = Range(crams)
    /\ summary' = <<>>
    /\ outfile_handle' = "open"
    /\ exit_states' = <<>>
    /\ validation_pos' = 0
    /\ ivPc' = "loop"
    /\ UNCHANGED <<run, crams, header, keep_temporary, validate_dir, validated,
                   esPc, cells_txt, cclPc, cell_dir, c2fVars,
                   validate_events>>
    /\ UNCHANGED <<targetVars, bamqcVars>>

\* an iteration that raises as soon as it reads a nonzero exit status
inspectValidations_loop_failfast ==
    /\ ivPc = "loop"
    /\ validation_pos < Len(infiles)
    /\ LET validation_file == infiles[validation_pos + 1]
           exit_status == read_exit_status(validation_file)
       IN  /\ exit_states' = Append(exit_states, int(exit_status))
           /\ IF int(exit_status) # 0
              THEN ivPc' = "raised" /\ UNCHANGED summary
              ELSE /\ ivPc' = ivPc
                   /\ summary' = summary
                                  \o summary_line(validation_file, exit_status)
    /\ validation_pos' = validation_pos + 1
    /\ UNCHANGED <<run, crams, header, keep_temporary, validate_dir, validated,
                   outfile_handle, esPc, cells_txt, cclPc, cell_dir, c2fVars,
                   validate_events>>
    /\ UNCHANGED <<targetVars, bamqcVars>>

\* one iteration of "for validation_file in infiles"
inspectValidations_loop ==
    /\ ivPc = "loop"
    /\ validation_pos < Len(infiles)
    /\ LET validation_file == infiles[validation_pos + 1]
           exit_status == read_exit_status(validation_file)
       IN  /\ exit_states' = Append(exit_states, int(exit_status))
           /\ summary' = summary \o summary_line(validation_file, exit_status)
    /\ validation_pos' = validation_pos + 1
    /\ UNCHANGED <<run, crams, header, keep_temporary, validate_dir, validated,
                   ivPc, outfile_handle, esPc, cells_txt, cclPc, cell_dir,
                   c2fVars,
                   validate_events>>
    /\ UNCHANGED <<targetVars, bamqcVars>>

\* outfile_handle.close()
inspectValidations_close ==
    /\ ivPc = "loop"
    /\ validation_pos = Len(infiles)
    /\ outfile_handle' = "closed"
    /\ ivPc' = "closed"
    /\ UNCHANGED <<run, crams, header, keep_temporary, validate_dir, validated,
                   validation_pos, exit_states, summary, esPc, cells_txt,
                   cclPc, cell_dir, c2fVars,
                   validate_events>>
    /\ UNCHANGED <<targetVars, bamqcVars>>

\* if sum(exit_states) != 0: raise ValueError(...)
inspectValidations_check ==
    /\ ivPc = "closed"
    /\ ivPc' = IF validation_failed(exit_states) THEN "raised" ELSE "done"
    /\ UNCHANGED <<run, crams, header, keep_temporary, validate_dir, validated,
                   validation_pos, exit_states, outfile_handle, summary, esPc,
                   cells_txt, cclPc, cell_dir, c2fVars,
                   validate_events>>
    /\ UNCHANGED <<targetVars, bamqcVars>>

\* ---------------------- extractSampleInformation ------------------------ *

EmptyDict == [k \in {} |-> <<>>]

\* the loop building the dictionary of cell to cram file mappings
RECURSIVE build_cells(_, _, _)
build_cells(files, hdr, cells) ==
    IF files = <<>> THEN cells
    ELSE LET cram_file == Head(files)
             cell == hdr[cram_file]
             updated ==
                 IF cell \notin DOMAIN cells
                 THEN [k \in (DOMAIN cells) \cup {cell} |->
                          IF k = cell THEN <<cram_file>> ELSE cells[k]]
                 ELSE [cells EXCEPT ![cell] = Append(@, cram_file)]
         IN  build_cells(Tail(files), hdr, updated)

\* a line of cells.txt that lists only the last cram file of the cell
cells_line_last_only(cell, cram_files) ==
    join(<<cell, cram_files[Len(cram_files)]>>, TAB) \o <<NL>>

\* "\t".join([cell, ",".join(cells[cell])]) + "\n"
cells_line(cell, cram_files) ==
    join(<<cell, join(cram_files, COMMA)>>, TAB) \o <<NL>>

\* the text written to cells.txt, the dictionary keys taken in order keys
cells_text(cells, keys) ==
    <<HASH, "cell", TAB, "cram_files", NL>>
    \o Concat([i \in 1..Len(keys) |-> cells_line(keys[i], cells[keys[i]])])

\* the task without its @follows(inspectValidations): ready as soon as its
\* input cram files exist
extractSampleInformation_unordered ==
    /\ needed("extractSampleInformation")
    /\ esPc = "waiting"
    /\ LET cells == build_cells(crams, header, EmptyDict)
       IN  \E keys \in Orderings(DOMAIN cells) :
              cells_txt' = cells_text(cells, keys)
    /\ esPc' = "done"
    /\ UNCHANGED <<run, crams, header, keep_temporary, validate_dir, validated,
                   ivPc, validation_pos, exit_states, outfile_handle, summary,
                   cclPc, cell_dir, c2fVars,
                   validate_events>>
    /\ UNCHANGED <<targetVars, bamqcVars>>

\* @follows(inspectValidations) @merge(glob.glob("data.dir/*.cram"), ...)
\* the iteration order of cells.keys() is not fixed by the code
extractSampleInformation ==
    /\ needed("extractSampleInformation")
    /\ esPc = "waiting"
    /\ ivPc = "done"
    /\ LET cells == build_cells(crams, header, EmptyDict)
       IN  \E keys \in Orderings(DOMAIN cells) :
              cells_txt' = cells_text(cells, keys)
    /\ esPc' = "done"
    /\ UNCHANGED <<run, crams, header, keep_temporary, validate_dir, validated,
                   ivPc, validation_pos, exit_states, outfile_handle, summary,
                   cclPc, cell_dir, c2fVars,
                   validate_events>>
    /\ UNCHANGED <<targetVars, bamqcVars>>

\* ----------------------------- cellCramLists ---------------------------- *

\* os.path.join(out_dir, cell + ".cell")
cell_file(cell) == <<"cell.info.dir/">> \o cell \o <<".cell">>

\* for cram in crams: cell_file_handle.write(cram + "\n")
cell_text(cram_names) ==
    Concat([i \in 1..Len(cram_names) |-> cram_names[i] \o <<NL>>])

\* the loop over the records of cells.txt: the directory after the loop and
\* whether unpacking a record raised
RECURSIVE write_cell_files(_, _)
write_cell_files(records, dir) ==
    IF records = <<>> THEN [dir |-> dir, raised |-> FALSE]
    ELSE LET record == Head(records)
             fields == split(strip(record, NL), TAB)
         IN  IF startswith(record, HASH)
             THEN write_cell_files(Tail(records), dir)
             ELSE IF Len(fields) # 2
             THEN [dir |-> dir, raised |-> TRUE]
             ELSE write_cell_files(Tail(records),
                     WriteFile(dir, cell_file(fields[1]),
                               cell_text(split(fields[2], COMMA))))

\* @split(extractSampleInformation, "cell.info.dir/*.cell")
cellCramLists ==
    /\ needed("cellCramLists")
    /\ cclPc = "waiting"
    /\ esPc = "done"
    /\ LET result == write_cell_files(readlines(cells_txt), cell_dir)
       IN  /\ cell_dir' = result.dir
           /\ cclPc' = IF result.raised THEN "raised" ELSE "done"
    /\ UNCHANGED <<run, crams, header, keep_temporary, validate_dir, validated,
                   ivPc, validation_pos, exit_states, outfile_handle, summary,
                   esPc, cells_txt, c2fVars,
                   validate_events>>
    /\ UNCHANGED <<targetVars, bamqcVars>>

\* ------------------------------- cram2fastq ----------------------------- *

\* os.path.basename(path)
basename(path) ==
    IF \E i \in 1..Len(path) : path[i] \in {"data.dir/", "cell.info.dir/"}
    THEN SubSeq(path, 1 + CHOOSE i \in 1..Len(path) :
                          /\ path[i] \in {"data.dir/", "cell.info.dir/"}
                          /\ \A k \in (i + 1)..Len(path) :
                                path[k] \notin {"data.dir/", "cell.info.dir/"},
                Len(path))
    ELSE path

\* name[:-len(suffix)]: the slice drops the suffix of a name that ends with
\* it, and all of a name that is not longer than the suffix (the case of
\* every other name here)
drop_suffix(name, suffix) ==
    IF name # <<>> /\ name[Len(name)] = suffix
    THEN SubSeq(name, 1, Len(name) - 1)
    ELSE <<>>

\* line.strip() for a line of a cell file
strip_line(line) == strip(line, NL)

\* os.path.join(temp_dir, os.path.basename(cram)[:-len(".cram")])
raw_fastq_name(cram) ==
    <<"fastq.temp.dir/">> \o drop_suffix(basename(cram), ".cram")

\* cell_name = os.path.basename(infile)[:-len(".cell")]
cell_name(infile) == drop_suffix(basename(infile), ".cell")

\* (r"fastq.dir/\1.fastq.1.gz", r"fastq.dir/\1.fastq.2.gz")
c2f_outfiles(infile) ==
    << <<"fastq.dir/">> \o regex_stem(infile) \o <<".fastq.1.gz">>,
       <<"fastq.dir/">> \o regex_stem(infile) \o <<".fastq.2.gz">> >>

\* [x + end + ".fastq.gz" for x in raw_fastq_names]
raw_fastqs(raw_fastq_names, end) ==
    [i \in 1..Len(raw_fastq_names) |->
        raw_fastq_names[i] \o <<end, ".fastq.gz">>]

\* trimmed_fastq_prefix + end + ".trimmed.fastq.gz"
trimmed_fastq_name(infile, end) ==
    <<"fastq.temp.dir/">> \o cell_name(infile) \o <<end, ".trimmed.fastq.gz">>

\* the files collected in temp_files, in order
temp_files(infile, raw_fastq_names) ==
    raw_fastqs(raw_fastq_names, "_1") \o raw_fastqs(raw_fastq_names, "_2")
    \o <<trimmed_fastq_name(infile, "_1"), trimmed_fastq_name(infile, "_2")>>

\* an extraction that hands every cram file of the cell to one command
extraction_calls_single(lines) ==
    IF lines = <<>> THEN <<>>
    ELSE <<P_run("cramtools fastq",
                 [i \in 1..Len(lines) |-> strip_line(lines[i])])>>

\* the extraction loop over the lines of the cell file up to the first cram
\* file that does not exist (cramtools fails and P.run raises)
extraction_calls(lines) ==
    LET cram_names == [i \in 1..Len(lines) |-> strip_line(lines[i])]
        bad == {i \in 1..Len(lines) : cram_names[i] \notin Range(crams)}
        last == IF bad = {} THEN Len(lines)
                ELSE CHOOSE i \in bad : \A k \in bad : i <= k
    IN  [i \in 1..last |->
            P_run("cramtools fastq", <<cram_names[i],
                                       raw_fastq_name(cram_names[i])>>)]

\* the calls after the extraction loop with the temporary files unlinked
\* before their sizes and checksums are recorded
calls_after_extraction_unlink_first(infile, raw_fastq_names) ==
    << P_run("fastq_quality_trimmer",
             raw_fastqs(raw_fastq_names, "_1")
             \o <<trimmed_fastq_name(infile, "_1")>>),
       P_run("fastq_quality_trimmer",
             raw_fastqs(raw_fastq_names, "_2")
             \o <<trimmed_fastq_name(infile, "_2")>>),
       P_run("fastqs2fastqs --method reconcile",
             <<trimmed_fastq_name(infile, "_1"),
               trimmed_fastq_name(infile, "_2")>> \o c2f_outfiles(infile)) >>
    \o (IF keep_temporary = 0
        THEN [i \in 1..Len(temp_files(infile, raw_fastq_names)) |->
                 os_unlink(temp_files(infile, raw_fastq_names)[i])]
             \o <<P_run("ls -l; md5sum", temp_files(infile, raw_fastq_names))>>
        ELSE <<>>)

\* the calls of a job whose commands all succeed, after the extraction loop
calls_after_extraction(infile, raw_fastq_names) ==
    << P_run("fastq_quality_trimmer",
             raw_fastqs(raw_fastq_names, "_1")
             \o <<trimmed_fastq_name(infile, "_1")>>),
       P_run("fastq_quality_trimmer",
             raw_fastqs(raw_fastq_names, "_2")
             \o <<trimmed_fastq_name(infile, "_2")>>),
       P_run("fastqs2fastqs --method reconcile",
             <<trimmed_fastq_name(infile, "_1"),
               trimmed_fastq_name(infile, "_2")>> \o c2f_outfiles(infile)) >>
    \o (IF keep_temporary = 0
        THEN <<P_run("ls -l; md5sum", temp_files(infile, raw_fastq_names))>>
             \o [i \in 1..Len(temp_files(infile, raw_fastq_names)) |->
                    os_unlink(temp_files(infile, raw_fastq_names)[i])]
        ELSE <<>>)

\* @follows(..., extractSampleInformation) @transform(cellCramLists, ...):
\* one job for every file that matches cell.info.dir/*.cell once
\* cellCramLists has completed; the whole task, as the sequence of its
\* P.run and os.unlink calls (the text of the log file is left out).  No job
\* is started after one has raised.
cram2fastq(infile) ==
    /\ needed("cram2fastq")
    /\ cclPc = "done"
    /\ esPc = "done"
    /\ c2f_raised = {}
    /\ infile \in (DOMAIN cell_dir) \ c2fDone
    /\ c2fDone' = c2fDone \cup {infile}
    /\ LET lines == readlines(cell_dir[infile])
           extraction == extraction_calls(lines)
           raw_fastq_names ==
               [i \in 1..Len(lines) |-> raw_fastq_name(strip_line(lines[i]))]
           failed == \E i \in 1..Len(lines) :
                        strip_line(lines[i]) \notin Range(crams)
       IN  /\ c2f_events' =
                 [f \in (DOMAIN c2f_events) \cup {infile} |->
                     IF f # infile THEN c2f_events[f]
                     ELSE IF failed THEN extraction
                     ELSE extraction
                          \o calls_after_extraction(infile, raw_fastq_names)]
           /\ c2f_raised' = IF failed THEN {infile} ELSE c2f_raised
    /\ UNCHANGED <<run, crams, header, keep_temporary, validate_dir, validated,
                   ivPc, validation_pos, exit_states, outfile_handle, summary,
                   esPc, cells_txt, cclPc, cell_dir, validate_events>>
    /\ UNCHANGED <<targetVars, bamqcVars>>

\* ------------------------------ pipeline runs --------------------------- *

RunFinished ==
    \/ pipelinePc = "raised"
    \/ ivPc = "raised"
    \/ cclPc = "raised"
    \/ cclPc = "done" /\ c2fDone = DOMAIN cell_dir
    \/ c2f_raised # {}

\* the pipeline is started again in the same working directory with fresh
\* input files; every task is out of date and runs again
NewRun ==
    /\ RunFinished
    /\ run < MaxRuns
    /\ run' = run + 1
    /\ \E S \in CramSets :
          \E c \in Orderings(S) :
             \E h \in [S -> SampleTags] :
                /\ crams' = c
                /\ header' = h
    /\ validated' = {}
    /\ validate_events' = EmptyDir
    /\ ivPc' = "waiting"
    /\ validation_pos' = 0
    /\ exit_states' = <<>>
    /\ outfile_handle' = "none"
    /\ esPc' = "waiting"
    /\ cclPc' = "waiting"
    /\ c2fDone' = {}
    /\ c2f_events' = EmptyDir
    /\ c2f_raised' = {}
    /\ pipelinePc' = "start"
    /\ UNCHANGED <<target, keep_temporary, validate_dir, summary, cells_txt,
                   cell_dir>>
    /\ UNCHANGED bamqcVars

\* the start of a run in an empty working directory, whatever its target
CramStart ==
    /\ pipelinePc = "start"
    /\ run = 1
    /\ \E S \in CramSets :
          /\ crams \in Orderings(S)
          /\ header \in [S -> SampleTags]
    /\ keep_temporary \in {0, 1}
    /\ validate_dir = EmptyDir
    /\ validated = {}
    /\ validate_events = EmptyDir
    /\ ivPc = "waiting"
    /\ validation_pos = 0
    /\ exit_states = <<>>
    /\ outfile_handle = "none"
    /\ summary = NoFile
    /\ esPc = "waiting"
    /\ cells_txt = NoFile
    /\ cclPc = "waiting"
    /\ cell_dir = EmptyDir
    /\ c2fDone = {}
    /\ c2f_events = EmptyDir
    /\ c2f_raised = {}

\* "make cram2fastq" in an empty working directory
CramInit ==
    /\ target = "cram2fastq"
    /\ CramStart

\* the cram2fastq pipeline has not been started
CramIdle ==
    /\ target = "none"
    /\ pipelinePc = "idle"
    /\ run = 0
    /\ crams = <<>>
    /\ header = EmptyDict
    /\ keep_temporary = 0
    /\ validate_dir = EmptyDir
    /\ validated = {}
    /\ validate_events = EmptyDir
    /\ ivPc = "waiting"
    /\ validation_pos = 0
    /\ exit_states = <<>>
    /\ outfile_handle = "none"
    /\ summary = NoFile
    /\ esPc = "waiting"
    /\ cells_txt = NoFile
    /\ cclPc = "waiting"
    /\ cell_dir = EmptyDir
    /\ c2fDone = {}
    /\ c2f_events = EmptyDir
    /\ c2f_raised = {}

\* ======================================================================== *
\*                        txseq/pipeline_bamqc.py                           *
\* ======================================================================== *

\* ---------------------------- threePrimeBias --------------------------- *

\* bounds of the coverage histograms
MaxRows == 3
MaxCov == 2

\* normalized positions a histogram row may hold: the window limits and one
\* position inside each window
HistogramPositions == {20, 45, 70, 80, 90}

HistogramRows ==
    [normalized_position : HistogramPositions, normalized_coverage : 0..MaxCov]

\* the tables pd.read_csv may return
Histograms == UNION {[1..n -> HistogramRows] : n \in 0..MaxRows}

\* floating point values: a number num/den, not-a-number, infinity
NaN == [kind |-> "nan"]
Inf == [kind |-> "inf"]
Num(n, d) == [kind |-> "num", num |-> n, den |-> d]

\* np.mean of a series: nan for an empty one
np_mean(values) ==
    IF values = <<>> THEN NaN ELSE Num(sum(values), Len(values))

\* a division that substitutes zero for a missing or zero divisor
np_divide_guarded(a, b) ==
    IF b.kind = "nan" THEN Num(0, 1)
    ELSE IF b.num = 0 THEN Num(0, 1)
    ELSE IF a.kind = "nan" THEN NaN
    ELSE Num(a.num * b.den, a.den * b.num)

\* a / b on numpy floats: no exception, inf or nan for a zero divisor
np_divide(a, b) ==
    IF a.kind = "nan" \/ b.kind = "nan" THEN NaN
    ELSE IF b.num = 0 THEN (IF a.num = 0 THEN NaN ELSE Inf)
    ELSE Num(a.num * b.den, a.den * b.num)

\* df[cov][(df[x] > lo) & (df[x] < hi)]
select_coverage(table, lo, hi) ==
    LET rows == SelectSeq(table, LAMBDA r : /\ r.normalized_position > lo
                                           /\ r.normalized_position < hi)
    IN  [i \in 1..Len(rows) |-> rows[i].normalized_coverage]

\* the three prime window with its lower limit included
three_prime_coverage_inclusive(table) ==
    LET rows == SelectSeq(table, LAMBDA r : /\ r.normalized_position >= 70
                                           /\ r.normalized_position < 90)
    IN  np_mean([i \in 1..Len(rows) |-> rows[i].normalized_coverage])

\* np.mean(df[cov][(df[x] > 70) & (df[x] < 90)])
three_prime_coverage(table) == np_mean(select_coverage(table, 70, 90))

\* np.mean(df[cov][(df[x] > 20) & (df[x] < 90)])
transcript_body_coverage(table) == np_mean(select_coverage(table, 20, 90))

\* the hundredths "%.2f" may print for num/den: the nearest; a decimal tie
\* that is a binary fraction goes to the even digit, any other tie to the
\* side on which the nearest double lies
hundredths(x) ==
    LET q == (100 * x.num) \div x.den
        r == (100 * x.num) % x.den
    IN  IF 2 * r < x.den THEN {q}
        ELSE IF 2 * r > x.den THEN {q + 1}
        ELSE IF (2 * q + 1) % 25 = 0 THEN {IF q % 2 = 0 THEN q ELSE q + 1}
        ELSE {q, q + 1}

\* the text of h hundredths with two decimals
two_decimals(h) ==
    Str(h \div 100) \o <<".">> \o <<DigitChars[((h \div 10) % 10) + 1],
                                    DigitChars[(h % 10) + 1]>>

\* the texts "%.2f" % x may give
format_2f(x) ==
    IF x.kind = "nan" THEN {<<"nan">>}
    ELSE IF x.kind = "inf" THEN {<<"inf">>}
    ELSE {two_decimals(h) : h \in hundredths(x)}

\* @transform(collectRnaSeqMetrics, ...): the whole task
threePrimeBias ==
    /\ tpbPc = "waiting"
    /\ LET value == np_divide(three_prime_coverage(df),
                              transcript_body_coverage(df))
       IN  /\ bias' = value
           /\ \E text \in format_2f(value) :
                 bias_file' = <<"three_prime_bias", NL>> \o text \o <<NL>>
    /\ tpbPc' = "done"
    /\ UNCHANGED <<df, cramVars, splicedVars, sampleVars, jobVars, qcVars>>

BiasInit ==
    /\ df \in Histograms
    /\ tpbPc = "waiting"
    /\ bias = NaN
    /\ bias_file = NoFile

\* no coverage histogram is being processed
BiasIdle ==
    /\ df = <<>>
    /\ tpbPc = "waiting"
    /\ bias = NaN
    /\ bias_file = NoFile

\* ---------------------------- fractionSpliced -------------------------- *

\* bounds of the alignment files
MaxReads == 2
MaxNH == 10

\* the CIGAR strings of an unspliced and of a spliced alignment
Cigars == { <<"50", "M">>, <<"20", "M", "100", "N", "30", "M">> }

\* an alignment record: its CIGAR and the value of its NH tag
Reads == [cigar : Cigars, NH : 1..MaxNH]

Alignments == UNION {[1..n -> Reads] : n \in 0..MaxReads}

\* the line samtools view prints for a read: eleven mandatory fields and
\* the NH tag, separated by tabs
sam_line(read) ==
    join(<< <<"read">>, <<"0">>, <<"chr">>, <<"100">>, <<"255">>, read.cigar,
            <<"*">>, <<"0">>, <<"0">>, <<"*">>, <<"*">>,
            <<"NH:i:">> \o Str(read.NH) >>, TAB)

\* pattern occurs in line as a run of consecutive tokens
contains(line, pattern) ==
    \E i \in 1..(Len(line) - Len(pattern) + 1) :
        SubSeq(line, i, i + Len(pattern) - 1) = pattern

\* grep <pattern>: the lines in which the pattern occurs anywhere
grep(pattern, lines) == SelectSeq(lines, LAMBDA l : contains(l, pattern))

\* grep NH:i:1
grep_NH_1(lines) == grep(<<"NH:i:", "1">>, lines)

\* cut -f 6
cut_f6(line) == split(line, TAB)[6]

\* index($1, "N") == 0
index_N_is_0(field) == \A i \in 1..Len(field) : field[i] # "N"

\* the awk main rule over all input lines: the counters us and s
RECURSIVE awk_count(_, _)
awk_count(fields, counts) ==
    IF fields = <<>> THEN counts
    ELSE awk_count(Tail(fields),
            IF index_N_is_0(Head(fields))
            THEN [counts EXCEPT !.us = @ + 1]
            ELSE [counts EXCEPT !.s = @ + 1])

RECURSIVE Pow10(_)
Pow10(k) == IF k = 0 THEN 1 ELSE 10 * Pow10(k - 1)

\* drop the trailing zeros of a digit text
RECURSIVE strip_zeros(_)
strip_zeros(digits) ==
    IF digits # <<>> /\ digits[Len(digits)] = "0"
    THEN strip_zeros(SubSeq(digits, 1, Len(digits) - 1))
    ELSE digits

\* awk print of n/d with 0 <= n <= d, d > 0: an integer value prints as an
\* integer, any other through OFMT = "%.6g" (six significant digits, trailing
\* zeros removed; fixed notation down to 0.0001)
awk_print(n, d) ==
    IF n = 0 THEN {<<"0">>}
    ELSE IF n = d THEN {<<"1">>}
    ELSE LET k == CHOOSE e \in 1..4 : /\ n * Pow10(e) >= d
                                      /\ n * Pow10(e - 1) < d
             q == (n * Pow10(k + 5)) \div d
             r == (n * Pow10(k + 5)) % d
             sig == IF 2 * r < d THEN {q}
                    ELSE IF 2 * r > d THEN {q + 1} ELSE {q, q + 1}
         IN  { IF m = Pow10(6) /\ k = 1 THEN <<"1">>
               ELSE <<"0", ".">> \o [i \in 1..(k - 1) |-> "0"]
                    \o strip_zeros(Str(m)) : m \in sig }

\* @files(fraction_spliced_jobs): the whole task.  The statement writes the
\* header, then appends the fraction; awk stops with an error when no line
\* reaches it (division by zero), P.run raises and the sentinel is not
\* touched.
fractionSpliced ==
    /\ fsPc = "waiting"
    /\ LET lines == [i \in 1..Len(bam) |-> sam_line(bam[i])]
           kept == grep_NH_1(lines)
           fields == [i \in 1..Len(kept) |-> cut_f6(kept[i])]
           counts == awk_count(fields, [us |-> 0, s |-> 0])
       IN  /\ us' = counts.us
           /\ s' = counts.s
           /\ IF counts.us + counts.s = 0
              THEN /\ fraction_file' = <<"fraction_spliced", NL>>
                   /\ fsPc' = "raised"
                   /\ UNCHANGED fraction_sentinel
              ELSE /\ \E text \in awk_print(counts.s, counts.us + counts.s) :
                         fraction_file' =
                             <<"fraction_spliced", NL>> \o text \o <<NL>>
                   /\ fsPc' = "done"
                   /\ fraction_sentinel' = TRUE
    /\ UNCHANGED <<bam, cramVars, biasVars, sampleVars, jobVars, qcVars>>

SplicedInit ==
    /\ bam \in Alignments
    /\ fsPc = "waiting"
    /\ us = 0
    /\ s = 0
    /\ fraction_file = NoFile
    /\ fraction_sentinel = FALSE

\* no alignment file is being processed
SplicedIdle ==
    /\ bam = <<>>
    /\ fsPc = "waiting"
    /\ us = 0
    /\ s = 0
    /\ fraction_file = NoFile
    /\ fraction_sentinel = FALSE

\* ------------------------------ sample table ---------------------------- *

\* the sample_id values of samples.tsv
SampleIds == {"s1", "s2"}

\* the tables T.samples may load: a paired flag for each sample
SampleTables ==
    UNION {[ids -> [paired : BOOLEAN]] : ids \in SUBSET SampleIds}

\* S.npaired
npaired == Cardinality({id \in DOMAIN samples : samples[id].paired})

\* PAIRED = False; if S.npaired > 0: PAIRED = True
PAIRED == npaired > 0

SampleInit ==
    /\ samples \in SampleTables
    /\ run_estimateLibraryComplexity \in BOOLEAN

\* no sample table has been loaded
SampleIdle ==
    /\ samples = [id \in {} |-> [paired |-> FALSE]]
    /\ run_estimateLibraryComplexity = FALSE

\* --------------------------- sentinel tasks ----------------------------- *

NoJob == [task |-> "none", sample_id |-> "none"]

\* the tasks that end with IOTools.touch_file
SentinelTasks == {"flatGeneset", "collectRnaSeqMetrics",
                  "estimateLibraryComplexity", "alignmentSummaryMetrics",
                  "insertSizeMetricsAndHistograms", "fractionSpliced"}

\* @files(None, "annotations.dir/geneset.flat.sentinel")
flat_geneset_jobs == {[task |-> "flatGeneset", sample_id |-> "none"]}

\* S.samples.keys(): the sample ids, each once, in the order of the table
sample_keys == CHOOSE keys \in Orderings(DOMAIN samples) : TRUE

\* the keys for which S.samples[sample_id].paired == True
paired_keys ==
    LET is_paired(sample_id) == samples[sample_id].paired = TRUE
    IN  SelectSeq(sample_keys, is_paired)

\* the jobs a generator yields for a task, one for each key in turn
yield(task, keys) ==
    [i \in 1..Len(keys) |-> [task |-> task, sample_id |-> keys[i]]]

collect_rna_seq_metrics_jobs == yield("collectRnaSeqMetrics", sample_keys)

estimate_library_complexity_jobs ==
    yield("estimateLibraryComplexity", paired_keys)

alignment_summary_metrics_jobs ==
    yield("alignmentSummaryMetrics", sample_keys)

\* a generator that yields a job for every sample, paired or not
insert_size_jobs_every_sample ==
    yield("insertSizeMetricsAndHistograms", sample_keys)

insert_size_jobs == yield("insertSizeMetricsAndHistograms", paired_keys)

fraction_spliced_jobs == yield("fractionSpliced", sample_keys)

\* @active_if: the condition under which a task takes part in the run
active(task) ==
    IF task = "estimateLibraryComplexity"
    THEN PAIRED /\ run_estimateLibraryComplexity
    ELSE IF task = "insertSizeMetricsAndHistograms" THEN PAIRED
    ELSE TRUE

\* the jobs of the active tasks
Jobs ==
    {j \in flat_geneset_jobs \cup Range(collect_rna_seq_metrics_jobs)
           \cup Range(estimate_library_complexity_jobs)
           \cup Range(alignment_summary_metrics_jobs)
           \cup Range(insert_size_jobs)
           \cup Range(fraction_spliced_jobs) : active(j.task)}

\* the sentinel files of a job, in the order in which the task touches them
sentinels(j) ==
    IF j.task = "flatGeneset"
    THEN << <<"annotations.dir/geneset.flat.sentinel">> >>
    ELSE IF j.task = "collectRnaSeqMetrics"
    THEN << <<"bam.qc.dir/rnaseq.metrics.dir/", j.sample_id,
              ".rnaseq.metrics.sentinel">> >>
    ELSE IF j.task = "estimateLibraryComplexity"
    THEN << <<"bam.qc.dir/estimate.library.complexity.dir/", j.sample_id,
              ".library.complexity.sentinel">> >>
    ELSE IF j.task = "alignmentSummaryMetrics"
    THEN << <<"bam.qc.dir/alignment.summary.metrics.dir/", j.sample_id,
              ".alignment.summary.metrics.sentinel">> >>
    ELSE IF j.task = "insertSizeMetricsAndHistograms"
    THEN << <<"bam.qc.dir/insert.size.metrics.dir/", j.sample_id,
              ".insert.size.metrics.summary.sentinel">>,
            <<"bam.qc.dir/insert.size.metrics.dir/", j.sample_id,
              ".insert.size.metrics.histogram.sentinel">> >>
    ELSE << <<"bam.qc.dir/fraction.spliced.dir/", j.sample_id,
              ".fraction.spliced.sentinel">> >>

\* the file a task requires before it builds its statement is missing
missing_input(task) ==
    \/ task = "flatGeneset" /\ ~gtf_exists
    \/ task \in {"alignmentSummaryMetrics", "insertSizeMetricsAndHistograms"}
       /\ ~reference_exists

\* @follows(flatGeneset) on collectRnaSeqMetrics
upstream_done(j) ==
    j.task = "collectRnaSeqMetrics" =>
        \A f \in Range(sentinels([task |-> "flatGeneset",
                                  sample_id |-> "none"])) : f \in sentinel_dir

\* a job is out of date while one of its sentinels does not exist
out_of_date(j) == \E f \in Range(sentinels(j)) : f \notin sentinel_dir

\* the runner starts a job: t = T.setup(infile, sentinel, PARAMS, ...)
task_setup(j) ==
    /\ job = NoJob
    /\ failedJob = NoJob
    /\ j \in Jobs
    /\ out_of_date(j)
    /\ upstream_done(j)
    /\ job' = j
    /\ jobPc' = "setup"
    /\ touch_pos' = 0
    /\ UNCHANGED <<gtf_exists, reference_exists, sentinel_dir, ran, failedJob>>
    /\ UNCHANGED <<cramVars, biasVars, splicedVars, sampleVars, qcVars>>

\* if not os.path.exists(...): raise ValueError(...)
task_check_input ==
    /\ jobPc = "setup"
    /\ IF missing_input(job.task)
       THEN jobPc' = "raised" /\ failedJob' = job
       ELSE jobPc' = "checked" /\ UNCHANGED failedJob
    /\ UNCHANGED <<gtf_exists, reference_exists, job, touch_pos, sentinel_dir,
                   ran>>
    /\ UNCHANGED <<cramVars, biasVars, splicedVars, sampleVars, qcVars>>

\* P.run(statement, **t.resources) returns
P_run_returns ==
    /\ jobPc = "checked"
    /\ jobPc' = "ran"
    /\ ran' = ran \cup {job}
    /\ UNCHANGED <<gtf_exists, reference_exists, job, touch_pos, sentinel_dir,
                   failedJob>>
    /\ UNCHANGED <<cramVars, biasVars, splicedVars, sampleVars, qcVars>>

\* P.run(statement, **t.resources) raises: the command failed
P_run_raises ==
    /\ jobPc = "checked"
    /\ jobPc' = "raised"
    /\ failedJob' = job
    /\ UNCHANGED <<gtf_exists, reference_exists, job, touch_pos, sentinel_dir,
                   ran>>
    /\ UNCHANGED <<cramVars, biasVars, splicedVars, sampleVars, qcVars>>

\* a task that touches its sentinels before it runs its statement
touch_file_early ==
    /\ jobPc = "checked"
    /\ touch_pos < Len(sentinels(job))
    /\ sentinel_dir' = sentinel_dir \cup {sentinels(job)[touch_pos + 1]}
    /\ touch_pos' = touch_pos + 1
    /\ UNCHANGED <<gtf_exists, reference_exists, job, jobPc, ran, failedJob>>
    /\ UNCHANGED <<cramVars, biasVars, splicedVars, sampleVars, qcVars>>

\* IOTools.touch_file(sentinel), for each sentinel of the job in turn; the
\* job ends after the last one
touch_file ==
    /\ jobPc = "ran"
    /\ touch_pos < Len(sentinels(job))
    /\ sentinel_dir' = sentinel_dir \cup {sentinels(job)[touch_pos + 1]}
    /\ IF touch_pos + 1 = Len(sentinels(job))
       THEN job' = NoJob /\ jobPc' = "idle" /\ touch_pos' = 0
       ELSE touch_pos' = touch_pos + 1 /\ UNCHANGED <<job, jobPc>>
    /\ UNCHANGED <<gtf_exists, reference_exists, ran, failedJob>>
    /\ UNCHANGED <<cramVars, biasVars, splicedVars, sampleVars, qcVars>>

JobInit ==
    /\ gtf_exists \in BOOLEAN
    /\ reference_exists \in BOOLEAN
    /\ job = NoJob
    /\ jobPc = "idle"
    /\ touch_pos = 0
    /\ sentinel_dir = {}
    /\ ran = {}
    /\ failedJob = NoJob

\* no job has been started
JobIdle ==
    /\ gtf_exists = FALSE
    /\ reference_exists = FALSE
    /\ job = NoJob
    /\ jobPc = "idle"
    /\ touch_pos = 0
    /\ sentinel_dir = {}
    /\ ran = {}
    /\ failedJob = NoJob

\* ------------------------------- qcSummary ------------------------------ *

NULL == "NULL"

\* the columns of the loaded tables that the summary statement names
Schema ==
    [ samples |-> {"sample_id", "paired"},
      qc_rnaseq_metrics |-> {"sample_id", "PCT_MRNA_BASES", "PCT_CODING_BASES"},
      qc_three_prime_bias |-> {"sample_id", "three_prime_bias"},
      qc_library_complexity |->
          {"sample_id", "ESTIMATED_LIBRARY_SIZE", "READ_PAIRS_EXAMINED",
           "PERCENT_DUPLICATION"},
      qc_fraction_spliced |-> {"sample_id", "fraction_spliced"},
      qc_alignment_summary_metrics |->
          {"sample_id", "CATEGORY", "PCT_READS_ALIGNED_IN_PAIRS",
           "PCT_PF_READS_ALIGNED", "TOTAL_READS", "PCT_ADAPTER",
           "PF_HQ_ALIGNED_READS", "PF_READS"},
      qc_insert_size_metrics |-> {"sample_id", "MEDIAN_INSERT_SIZE"} ]

\* the load tasks qcSummary merges, in the order of the decorator, each
\* with its output file and the task whose @active_if it carries
LoadTasks ==
    << [file |-> <<"samples", ".load">>, of |-> "loadSampleInformation"],
       [file |-> <<"bam.qc.dir/", "qc_rnaseq_metrics", ".load">>,
        of |-> "collectRnaSeqMetrics"],
       [file |-> <<"bam.qc.dir/", "qc_three_prime_bias", ".load">>,
        of |-> "threePrimeBias"],
       [file |-> <<"bam.qc.dir/", "qc_library_complexity", ".load">>,
        of |-> "estimateLibraryComplexity"],
       [file |-> <<"bam.qc.dir/", "qc_fraction_spliced", ".load">>,
        of |-> "fractionSpliced"],
       [file |-> <<"bam.qc.dir/", "qc_alignment_summary_metrics", ".load">>,
        of |-> "alignmentSummaryMetrics"],
       [file |-> <<"bam.qc.dir/", "qc_insert_size_metrics", ".load">>,
        of |-> "insertSizeMetricsAndHistograms"] >>

\* P.to_table: the file name without its directory and without ".load"
to_table(load_file) == load_file[Len(load_file) - 1]

\* the input files of qcSummary: the outputs of the load tasks that are
\* active in this run
qc_infiles ==
    LET tasks == SelectSeq(LoadTasks, LAMBDA t : active(t.of))
    IN  [i \in 1..Len(tasks) |-> tasks[i].file]

\* exclude = [] if PAIRED, else the two tables of paired end metrics
exclude ==
    IF PAIRED THEN {} ELSE {"qc_library_complexity", "qc_insert_size_metrics"}

\* tables = [P.to_table(x) for x in infiles if P.to_table(x) not in exclude]
qc_tables(files) ==
    LET kept == SelectSeq(files, LAMBDA x : to_table(x) \notin exclude)
    IN  [i \in 1..Len(kept) |-> to_table(kept[i])]

\* a select item: the columns its expression reads and the output name
Item(columns, name) == [reads |-> columns, as |-> name]

paired_columns ==
    IF PAIRED
    THEN << Item({"PCT_READS_ALIGNED_IN_PAIRS"}, "pct_reads_aligned_in_pairs"),
            Item({"MEDIAN_INSERT_SIZE"}, "median_insert_size") >>
    ELSE <<>>

\* library-complexity columns selected whenever the data is paired
elc_columns_if_paired ==
    IF PAIRED
    THEN << Item({"ESTIMATED_LIBRARY_SIZE"}, "library_size"),
            Item({"READ_PAIRS_EXAMINED"}, "no_pairs"),
            Item({"PERCENT_DUPLICATION"}, "pct_duplication") >>
    ELSE <<>>

elc_columns ==
    IF run_estimateLibraryComplexity /\ PAIRED
    THEN << Item({"ESTIMATED_LIBRARY_SIZE"}, "library_size"),
            Item({"READ_PAIRS_EXAMINED"}, "no_pairs"),
            Item({"PERCENT_DUPLICATION"}, "pct_duplication") >>
    ELSE <<>>

\* a category that ignores the paired flag
pcat_always_pair == "PAIR"

pcat == IF PAIRED THEN "PAIR" ELSE "UNPAIRED"

\* select distinct samples.*, ... : the items after samples.*
select_items ==
    << Item({"fraction_spliced"}, "fraction_spliced"),
       Item({"three_prime_bias"}, "three_prime_bias") >>
    \o paired_columns \o elc_columns
    \o << Item({"PCT_MRNA_BASES"}, "pct_mrna"),
          Item({"PCT_CODING_BASES"}, "pct_coding"),
          Item({"PCT_PF_READS_ALIGNED"}, "pct_reads_aligned"),
          Item({"TOTAL_READS"}, "total_reads"),
          Item({"PCT_ADAPTER"}, "pct_adapter"),
          Item({"PF_HQ_ALIGNED_READS", "PF_READS"}, "pct_pf_reads_aligned_hq") >>

\* the statement qcSummary assembles from its input files
qc_statement(files) ==
    LET tables == qc_tables(files)
    IN  [ star |-> "samples",
          select |-> select_items,
          from |-> tables[1],
          joins |-> Tail(tables),
          where |-> [table |-> "qc_alignment_summary_metrics",
                     column |-> "CATEGORY", value |-> pcat] ]

\* the tables a statement reads
statement_tables(st) == {st.from} \cup Range(st.joins)

\* the statement names a table or a column the database cannot resolve
statement_invalid(st) ==
    \/ \E t \in statement_tables(st) : t \notin DOMAIN db
    \/ st.star \notin statement_tables(st)
    \/ st.where.table \notin statement_tables(st)
    \/ \E i \in DOMAIN st.select : \E c \in st.select[i].reads :
          \A t \in statement_tables(st) : c \notin Schema[t]

\* the row of nulls a left join puts in place of a table without a match
null_row(table) == [c \in Schema[table] |-> NULL]

\* left join <table> on <from>.sample_id = <table>.sample_id, applied to the
\* rows joined so far (each a function: table |-> row)
left_join(joined, from, table) ==
    UNION { LET matches == {r \in db[table] :
                               r["sample_id"] = j[from]["sample_id"]}
                rows == IF matches = {} THEN {null_row(table)} ELSE matches
            IN  {[t \in (DOMAIN j) \cup {table} |->
                     IF t = table THEN r ELSE j[t]] : r \in rows}
          : j \in joined }

RECURSIVE join_all(_, _, _)
join_all(joined, from, tables) ==
    IF tables = <<>> THEN joined
    ELSE join_all(left_join(joined, from, Head(tables)), from, Tail(tables))

\* the value of a select item in a joined row: null when a column it reads
\* is null
item_value(st, j, item) ==
    LET values == {j[t][c] : t \in {u \in statement_tables(st) :
                                       item.reads \cap Schema[u] # {}},
                             c \in item.reads}
    IN  IF NULL \in values THEN NULL ELSE CHOOSE v \in values : TRUE

\* the output row of a joined row that passes the where clause
output_row(st, j) ==
    [c \in Schema[st.star] \cup {st.select[i].as : i \in DOMAIN st.select} |->
        IF c \in Schema[st.star] THEN j[st.star][c]
        ELSE LET i == CHOOSE k \in DOMAIN st.select : st.select[k].as = c
             IN  item_value(st, j, st.select[i])]

\* DB.fetch_DataFrame(statement, ...): the distinct rows of the result
fetch_DataFrame(st) ==
    LET joined == join_all({[t \in {st.from} |-> r] : r \in db[st.from]},
                           st.from, st.joins)
        kept == {j \in joined :
                    j[st.where.table][st.where.column] = st.where.value}
    IN  {output_row(st, j) : j \in kept}

\* @merge([loadSampleInformation, ...], "bam.qc.dir/qc_summary.txt"): the
\* whole task; an error of the database raises
qcSummary ==
    /\ qcPc = "waiting"
    /\ LET statement == qc_statement(qc_infiles)
       IN  IF statement_invalid(statement)
           THEN qcPc' = "raised" /\ UNCHANGED qc_summary
           ELSE qcPc' = "done" /\ qc_summary' = fetch_DataFrame(statement)
    /\ UNCHANGED <<db, cramVars, biasVars, splicedVars, sampleVars, jobVars>>

\* a row of a metric table: the sample and a value in every other column
metric_row(table, id, value) ==
    [c \in Schema[table] |-> IF c = "sample_id" THEN id ELSE value]

\* the rows CollectAlignmentSummaryMetrics reports for a sample
CategoryRows == { {}, {"UNPAIRED"}, {"FIRST_OF_PAIR", "SECOND_OF_PAIR", "PAIR"} }

\* the tables the load tasks of a run leave in the database: the sample
\* table, and for each active load task the rows of the samples whose job
\* reported metrics
Databases ==
    LET ids == DOMAIN samples
        pairedIds == {i \in ids : samples[i].paired}
        table(name, S) == {metric_row(name, id, "v") : id \in S}
    IN  { [t \in {to_table(qc_infiles[i]) : i \in DOMAIN qc_infiles} |->
             IF t = "samples"
             THEN {[sample_id |-> id,
                    paired |-> IF samples[id].paired THEN "1" ELSE "0"] :
                      id \in ids}
             ELSE IF t = "qc_alignment_summary_metrics"
             THEN UNION {{metric_row(t, id, c) : c \in cat[id]} : id \in ids}
             ELSE IF t = "qc_library_complexity" THEN table(t, lc)
             ELSE IF t = "qc_insert_size_metrics" THEN table(t, isz)
             ELSE IF t = "qc_rnaseq_metrics" THEN table(t, rna)
             ELSE IF t = "qc_three_prime_bias" THEN table(t, tpb)
             ELSE table(t, fs)] :
          rna \in SUBSET ids, tpb \in SUBSET ids, fs \in SUBSET ids,
          lc \in SUBSET pairedIds, isz \in SUBSET pairedIds,
          cat \in [ids -> CategoryRows] }

QcInit ==
    /\ db \in Databases
    /\ qcPc = "waiting"
    /\ qc_summary = NoFile

\* no table has been loaded
QcIdle ==
    /\ db = [t \in {} |-> {}]
    /\ qcPc = "waiting"
    /\ qc_summary = NoFile

\* ======================================================================== *
\*                             specifications                               *
\* ======================================================================== *

vars == <<cramVars, bamqcVars>>

Init == CramInit /\ BiasIdle /\ SplicedIdle /\ SampleIdle /\ JobIdle /\ QcIdle

Next ==
    \/ pipeline_run
    \/ \E infile \in CramFiles : validateCramFiles(infile)
    \/ inspectValidations_open
    \/ inspectValidations_loop
    \/ inspectValidations_close
    \/ inspectValidations_check
    \/ extractSampleInformation
    \/ cellCramLists
    \/ \E infile \in DOMAIN cell_dir : cram2fastq(infile)

\* one run of the cram2fastq pipeline in an empty working directory
Spec == Init /\ [][Next]_vars

\* one run of the cram2fastq pipeline for each name the command line may ask
\* for
InitTarget ==
    /\ target \in Targets
    /\ CramStart
    /\ BiasIdle /\ SplicedIdle /\ SampleIdle /\ JobIdle /\ QcIdle

SpecTarget == InitTarget /\ [][Next]_vars

\* runs of the cram2fastq pipeline repeated in the same working directory
SpecRerun == Init /\ [][Next \/ NewRun]_vars

\* threePrimeBias on every coverage histogram
InitBias == CramIdle /\ BiasInit /\ SplicedIdle /\ SampleIdle /\ JobIdle /\ QcIdle

NextBias == threePrimeBias

SpecBias == InitBias /\ [][NextBias]_vars

\* fractionSpliced on every alignment file
InitSpliced ==
    CramIdle /\ BiasIdle /\ SplicedInit /\ SampleIdle /\ JobIdle /\ QcIdle

NextSpliced == fractionSpliced

SpecSpliced == InitSpliced /\ [][NextSpliced]_vars

\* one run of the sentinel tasks of the bam QC pipeline, a job at a time
InitSentinel ==
    CramIdle /\ BiasIdle /\ SplicedIdle /\ SampleInit /\ JobInit /\ QcIdle

NextSentinel ==
    \/ \E j \in Jobs : task_setup(j)
    \/ task_check_input
    \/ P_run_returns
    \/ P_run_raises
    \/ touch_file

SpecSentinel == InitSentinel /\ [][NextSentinel]_vars

\* qcSummary on the tables loaded for every non-empty sample table
InitQc ==
    /\ CramIdle /\ BiasIdle /\ SplicedIdle /\ JobIdle
    /\ SampleInit
    /\ DOMAIN samples # {}
    /\ QcInit

NextQc == qcSummary

SpecQc == InitQc /\ [][NextQc]_vars

\* ======================================================================== *
\*                 properties of pipeline_cram2fastq.py                     *
\* ======================================================================== *

inspectValidationsEnded == ivPc \in {"done", "raised"}

\* the exit status recorded in the i-th input validation file: its text
\* without the line terminator
RecordedStatus(i) ==
    SubSeq(validate_dir[infiles[i]], 1, Len(validate_dir[infiles[i]]) - 1)

\* C1: inspectValidations raises whenever at least one exit code recorded in
\* its input validation files is nonzero, and returns normally when all of
\* them are zero.
C1_RaisesIffNonzeroStatus ==
    inspectValidationsEnded =>
        (ivPc = "raised" <=>
            \E i \in 1..Len(infiles) : RecordedStatus(i) # <<"0">>)

\* inspectValidations has raised on two files of which one records zero
C1_Witness ==
    /\ ivPc = "raised"
    /\ Len(infiles) = 2
    /\ \E i \in 1..2 : RecordedStatus(i) = <<"0">>

\* C2: once inspectValidations has processed its N input files, summary.txt
\* holds exactly N lines, the i-th being the i-th input file name and its
\* recorded exit status separated by one tab, whether the task returned or
\* raised.
C2_SummaryLinePerInput ==
    inspectValidationsEnded =>
        LET lines == readlines(summary)
        IN  /\ Len(lines) = Len(infiles)
            /\ \A i \in 1..Len(infiles) :
                  lines[i] = infiles[i] \o <<TAB>> \o RecordedStatus(i) \o <<NL>>

\* both endings of the task on two input files
C2_Witness ==
    /\ inspectValidationsEnded
    /\ Len(infiles) = 2
    /\ Len(readlines(summary)) = 2
    /\ summary[Len(summary)] = NL

\* C3: the validation error is raised only after the summary file has been
\* completely written and closed: when the task has raised, every input file
\* was read, a line was written for each, and the handle is closed.
C3_RaiseAfterSummaryClosed ==
    ivPc = "raised" =>
        /\ outfile_handle = "closed"
        /\ validation_pos = Len(infiles)
        /\ Len(exit_states) = Len(infiles)
        /\ Len(readlines(summary)) = Len(infiles)

\* the task has raised and the first of its two files holds the nonzero
\* status, so the second was read after the failure was known
C3_Witness ==
    /\ ivPc = "raised"
    /\ Len(infiles) = 2
    /\ exit_states[1] # 0
    /\ outfile_handle = "closed"

\* some validation of this run has recorded a nonzero exit status
SomeValidationFailed ==
    \E c \in validated : validate_dir[validate_outfile(c)] # echo_status(0)

\* C4: if any cram file's validation records a nonzero exit code, then
\* extractSampleInformation, cellCramLists and cram2fastq never run in that
\* run, and inspectValidations does not complete successfully.
C4_FailedValidationStopsRun ==
    SomeValidationFailed =>
        /\ ivPc # "done"
        /\ esPc = "waiting"
        /\ cclPc = "waiting"
        /\ c2fDone = {}

\* the run has ended in the validation error with all cram files validated
C4_Witness ==
    /\ SomeValidationFailed
    /\ validated = Range(crams)
    /\ ivPc = "raised"
    /\ esPc = "waiting"

\* the cram files listed in a cell file, one per line
ListedCrams(text) == {strip(l, NL) : l \in Range(readlines(text))}

\* C5: after extractSampleInformation and cellCramLists, the file
\* <cell>.cell of each sample tag lists exactly the cram files whose header
\* sample tag is that cell, one per line.
C5_CellFilesGroupBySampleTag ==
    cclPc = "done" =>
        \A tag \in Range(header) :
            /\ cell_file(tag) \in DOMAIN cell_dir
            /\ ListedCrams(cell_dir[cell_file(tag)])
                   = {c \in Range(crams) : header[c] = tag}

\* the outputs a single run on the current inputs leaves in an empty
\* working directory
SingleRunSummary ==
    Concat([i \in 1..Len(infiles) |->
               infiles[i] \o <<TAB>> \o RecordedStatus(i) \o <<NL>>])

SingleRunCellDir == write_cell_files(readlines(cells_txt), EmptyDir).dir

\* C8: re-running a file-writing task whose outputs exist, with fresh
\* inputs, leaves the outputs of a single first run on the fresh inputs:
\* no line and no per-cell file of the earlier run remains.
C8_RerunLeavesNoStaleOutput ==
    /\ inspectValidationsEnded => summary = SingleRunSummary
    /\ cclPc = "done" => cell_dir = SingleRunCellDir

\* the cram2fastq jobs that have run to their end without raising
c2fCompleted == c2fDone \ c2f_raised

\* the cram files of the cell of a cell file, by their sample tag
CellCrams(infile) == {c \in Range(crams) : cell_file(header[c]) = infile}

\* the intermediate files of a cell: the raw fastq of both ends of each of
\* its cram files and the trimmed fastq of both ends
IntermediateFiles(infile) ==
    {<<"fastq.temp.dir/">> \o regex_stem(c) \o <<end, ".fastq.gz">> :
        c \in CellCrams(infile), end \in {"_1", "_2"}}
    \cup {<<"fastq.temp.dir/">> \o regex_stem(infile)
             \o <<end, ".trimmed.fastq.gz">> : end \in {"_1", "_2"}}

\* the positions of the calls of one kind in the call sequence of a job
Calls(infile, op, statement) ==
    {i \in DOMAIN c2f_events[infile] :
        /\ c2f_events[infile][i].op = op
        /\ c2f_events[infile][i].statement = statement}

Unlinks(infile) == Calls(infile, "os.unlink", "")

Unlinked(infile) == {c2f_events[infile][i].files[1] : i \in Unlinks(infile)}

\* C11: for a cram2fastq job that ran to its end: when keep_temporary is 0
\* the unlinked files are exactly the raw per-end fastqs of every cram of the
\* cell and both trimmed fastqs, and each unlink comes after the
\* pair-reconciliation command and the size/checksum command have returned;
\* when keep_temporary is not 0 nothing is unlinked; the two output fastq
\* files are never unlinked.
C11_TemporaryFilesUnlinkedLast ==
    \A infile \in c2fCompleted :
        /\ keep_temporary = 0 =>
              /\ Unlinked(infile) = IntermediateFiles(infile)
              /\ \A u \in Unlinks(infile) :
                    /\ \E r \in Calls(infile, "P.run",
                                      "fastqs2fastqs --method reconcile") : r < u
                    /\ \E m \in Calls(infile, "P.run", "ls -l; md5sum") : m < u
        /\ keep_temporary # 0 => Unlinks(infile) = {}
        /\ Unlinked(infile) \cap Range(c2f_outfiles(infile)) = {}

\* a job on a cell of two cram files has unlinked its six intermediate files
C11_Witness ==
    \E infile \in c2fCompleted :
        /\ keep_temporary = 0
        /\ Cardinality(CellCrams(infile)) = 2
        /\ Cardinality(Unlinked(infile)) = 6

\* the sample tags of the cram files of this run
Tags == {header[c] : c \in Range(crams)}

\* the cram files with a sample tag, in processing order
TaggedCrams(tag) ==
    LET HasTag(c) == header[c] = tag
    IN  SelectSeq(crams, HasTag)

\* the dictionary holding every cram file of each sample tag
AllCramsPerTag == [tag \in Tags |-> TaggedCrams(tag)]

\* the dictionary holding only the cram file processed last
LastCramPerTag ==
    [tag \in Tags |-> <<TaggedCrams(tag)[Len(TaggedCrams(tag))]>>]

\* cells.txt for a dictionary listed in the order keys: the header line,
\* then for each key the key, a tab and its cram files separated by commas
CellsTable(dict, keys) ==
    <<HASH, "cell", TAB, "cram_files", NL>>
    \o Concat([i \in 1..Len(keys) |->
                  keys[i] \o <<TAB>> \o join(dict[keys[i]], COMMA) \o <<NL>>])

\* C12: the entry extractSampleInformation builds for a sample tag holds
\* every cram file with that tag, in processing order (a cram file with a
\* tag already met is appended to the entry), and cells.txt is the header
\* line followed by one line for each entry.
C12_EntryHoldsEveryCramOfTag ==
    esPc = "done" =>
        \E keys \in Orderings(Tags) :
            cells_txt = CellsTable(AllCramsPerTag, keys)

\* C12 as stated: grouping is last-write-wins per key, the entry of a sample
\* tag holding only the cram file processed last.
C12_LastWriteWins ==
    esPc = "done" =>
        \E keys \in Orderings(Tags) :
            cells_txt = CellsTable(LastCramPerTag, keys)

\* extractSampleInformation has met the same sample tag in two cram files
C12_Witness ==
    /\ esPc = "done"
    /\ \E tag \in Tags : Len(TaggedCrams(tag)) >= 2

\* the number of P.run calls in a sequence of calls
P_run_count(events) ==
    Cardinality({i \in DOMAIN events : events[i].op = "P.run"})

\* C13: a validateCramFiles invocation makes exactly one P.run call; a
\* cram2fastq invocation that runs to its end on a cell of n cram files makes
\* n + 3 P.run calls (one extraction per cram file, one trimming per end,
\* one reconciliation) and one more when keep_temporary is 0.
C13_RunCallsPerInvocation ==
    /\ \A infile \in validated : P_run_count(validate_events[infile]) = 1
    /\ \A infile \in c2fCompleted :
          P_run_count(c2f_events[infile]) =
              Cardinality(CellCrams(infile)) + 3
              + (IF keep_temporary = 0 THEN 1 ELSE 0)

\* C13 as stated: every task invocation, cram2fastq included, makes exactly
\* one P.run call.
C13_SingleRunCallPerInvocation ==
    /\ \A infile \in validated : P_run_count(validate_events[infile]) = 1
    /\ \A infile \in c2fDone : P_run_count(c2f_events[infile]) = 1

\* cram2fastq has run to its end on a cell of two cram files that were each
\* validated by a job of their own
C13_Witness ==
    \E infile \in c2fCompleted :
        /\ Cardinality(CellCrams(infile)) = 2
        /\ CellCrams(infile) \subseteq validated
        /\ P_run_count(c2f_events[infile]) >= 5

\* no task of the run has raised
NoTaskRaised == ivPc # "raised" /\ cclPc # "raised" /\ c2f_raised = {}

\* C16: the target full depends on cram2fastq: a run that was asked for
\* full schedules cram2fastq, and unless a task raises it ends only when
\* cellCramLists has written the cell files and cram2fastq has run for
\* every one of them.
C16_FullDependsOnCram2fastq ==
    (target = "full" /\ crams # <<>>) =>
        /\ pipelinePc = "running" => needed("cram2fastq")
        /\ (RunFinished /\ NoTaskRaised) =>
              /\ cclPc = "done"
              /\ c2fDone = DOMAIN cell_dir

\* the places where a cram file is listed: a cell file and one of its lines
Listings(cram) ==
    {<<f, i>> \in UNION {{f} \X (1..Len(readlines(cell_dir[f]))) :
                            f \in DOMAIN cell_dir} :
        readlines(cell_dir[f])[i] = cram \o <<NL>>}

\* C18: after extractSampleInformation and cellCramLists the cell files
\* partition the input: there are as many cell files as distinct sample
\* tags, and every input cram file is listed exactly once, in one cell file.
C18_CellFilesPartitionInput ==
    cclPc = "done" =>
        /\ Cardinality(DOMAIN cell_dir) = Cardinality(Tags)
        /\ \A cram \in Range(crams) : Cardinality(Listings(cram)) = 1

\* ======================================================================== *
\*                    properties of pipeline_bamqc.py                       *
\* ======================================================================== *

\* the rows of the histogram inside an open position window
Window(lo, hi) ==
    {i \in DOMAIN df : lo < df[i].normalized_position
                       /\ df[i].normalized_position < hi}

RECURSIVE Coverage(_)
Coverage(rows) ==
    IF rows = {} THEN 0
    ELSE LET i == CHOOSE j \in rows : TRUE
         IN  df[i].normalized_coverage + Coverage(rows \ {i})

\* C6: when both position windows contain rows and the mean of the wider one
\* is nonzero, bias = (mean coverage over 70 < position < 90) / (mean
\* coverage over 20 < position < 90), both bounds strict.
C6_BiasIsRatioOfWindowMeans ==
    (/\ tpbPc = "done"
     /\ Window(70, 90) # {}
     /\ Window(20, 90) # {}
     /\ Coverage(Window(20, 90)) # 0) =>
        /\ bias.kind = "num"
        /\ bias.num * (Cardinality(Window(70, 90)) * Coverage(Window(20, 90)))
             = bias.den * (Coverage(Window(70, 90)) * Cardinality(Window(20, 90)))

\* a histogram with covered rows on the limit 70 and inside both windows
C6_Witness ==
    /\ tpbPc = "done"
    /\ Coverage(Window(70, 90)) # 0
    /\ Window(20, 90) # Window(70, 90)
    /\ \E i \in DOMAIN df : /\ df[i].normalized_position = 70
                            /\ df[i].normalized_coverage # 0
    /\ bias.kind = "num"

\* the reads with NH = 1, with and without N in the CIGAR
UniqueReads(spliced) ==
    {i \in DOMAIN bam : /\ bam[i].NH = 1
                        /\ spliced <=> ("N" \in Range(bam[i].cigar))}

\* C9: fractionSpliced counts only reads whose NH tag equals 1: a read with
\* any other NH value adds to neither the spliced nor the unspliced count,
\* and the fraction is (counted reads with N in the CIGAR) / (counted reads).
C9_OnlyUniquelyMappedReadsCounted ==
    fsPc # "waiting" =>
        /\ s = Cardinality(UniqueReads(TRUE))
        /\ us = Cardinality(UniqueReads(FALSE))

\* C10: in every sentinel-producing task a sentinel file is created only
\* after the task's external command has returned without raising, and an
\* invocation that raises (missing GTF or reference sequence, failed command)
\* creates none of its sentinels.
C10_SentinelOnlyAfterCommand ==
    \A j \in Jobs :
        /\ (\E f \in Range(sentinels(j)) : f \in sentinel_dir) => j \in ran
        /\ failedJob = j => \A f \in Range(sentinels(j)) : f \notin sentinel_dir

\* insertSizeMetricsAndHistograms has touched both sentinels of a sample and
\* the command of a later job has failed
C10_Witness ==
    /\ failedJob # NoJob
    /\ failedJob \in Jobs \ ran
    /\ jobPc = "raised"
    /\ \E j \in Range(insert_size_jobs) :
          /\ j \in ran
          /\ \A f \in Range(sentinels(j)) : f \in sentinel_dir

\* C7: the output of qcSummary contains one row per sample_id present in
\* the base table samples; a sample without a matching row in some metric
\* table still appears, with nulls in that table's columns.
C7_OneRowPerSample ==
    qcPc = "done" =>
        \A id \in DOMAIN samples :
            Cardinality({r \in qc_summary : r["sample_id"] = id}) = 1

\* C14: the division of threePrimeBias is unguarded: when the window
\* 20 < normalized_position < 90 holds no rows or its mean coverage is zero,
\* the task still divides and substitutes no default, so bias is not a
\* number and the text "nan" is what the output file holds.
C14_UnguardedDivisionGivesNaN ==
    (/\ tpbPc = "done"
     /\ \/ Window(20, 90) = {}
        \/ Coverage(Window(20, 90)) = 0) =>
        /\ bias.kind = "nan"
        /\ bias_file = <<"three_prime_bias", NL, "nan", NL>>

\* a histogram with rows in both windows, all without coverage, was processed
C14_Witness ==
    /\ tpbPc = "done"
    /\ Window(70, 90) # {}
    /\ Window(20, 90) # Window(70, 90)
    /\ Coverage(Window(20, 90)) = 0
    /\ bias = NaN

\* the statement qcSummary builds in this run and the names it selects
Statement == qc_statement(qc_infiles)

SelectedNames == {Statement.select[i].as : i \in DOMAIN Statement.select}

InfileTables == {to_table(qc_infiles[i]) : i \in DOMAIN qc_infiles}

PairedNames == {"pct_reads_aligned_in_pairs", "median_insert_size"}

ComplexityNames == {"library_size", "no_pairs", "pct_duplication"}

PairedTables == {"qc_library_complexity", "qc_insert_size_metrics"}

\* every load file named in the @merge of qcSummary, in its order
AllLoadFiles == [i \in DOMAIN LoadTasks |-> LoadTasks[i].file]

\* C15: the statement of qcSummary follows the two flags: the paired columns
\* are selected iff PAIRED, the library-complexity columns iff PAIRED and
\* run_estimateLibraryComplexity, the WHERE clause asks for CATEGORY "PAIR"
\* iff PAIRED and "UNPAIRED" otherwise, and qcSummary leaves the tables
\* qc_library_complexity and qc_insert_size_metrics out of the join iff not
\* PAIRED, both for the input files of this run and when it is given every
\* load file (with PAIRED it joins every table it is given); the rows
\* written carry the selected names.
C15_StatementFollowsFlags ==
    LET st == Statement
        names == SelectedNames
        dropped == IF PAIRED THEN {} ELSE PairedTables
    IN  /\ PairedNames \subseteq names <=> PAIRED
        /\ PairedNames \cap names # {} <=> PAIRED
        /\ ComplexityNames \subseteq names
              <=> (PAIRED /\ run_estimateLibraryComplexity)
        /\ ComplexityNames \cap names # {}
              <=> (PAIRED /\ run_estimateLibraryComplexity)
        /\ st.where.table = "qc_alignment_summary_metrics"
        /\ st.where.column = "CATEGORY"
        /\ st.where.value = "PAIR" <=> PAIRED
        /\ st.where.value = "UNPAIRED" <=> ~PAIRED
        /\ statement_tables(st) = InfileTables \ dropped
        /\ statement_tables(qc_statement(AllLoadFiles))
              = {to_table(AllLoadFiles[i]) : i \in DOMAIN AllLoadFiles}
                \ dropped
        /\ qcPc = "done" =>
              \A r \in qc_summary : DOMAIN r = Schema["samples"] \cup names

\* qcSummary has written rows for unpaired samples
C15_Witness ==
    /\ qcPc = "done"
    /\ ~PAIRED
    /\ qc_summary # {}

\* the tables loaded by the load tasks that are active under the flags
ActiveLoadTables ==
    {to_table(LoadTasks[i].file) :
        i \in {k \in DOMAIN LoadTasks : active(LoadTasks[k].of)}}

\* C17: under every combination of PAIRED and run_estimateLibraryComplexity,
\* with the load files of exactly the active load tasks as input, every
\* column of the select list and the table and column of the WHERE clause
\* belong to a table of the FROM/JOIN list, only tables an active task
\* loaded are joined, and the database accepts the statement.
C17_StatementNamesOnlyJoinedTables ==
    LET st == Statement
        joined == statement_tables(st)
    IN  /\ InfileTables = ActiveLoadTables
        /\ \A i \in DOMAIN st.select :
              \A c \in st.select[i].reads : \E t \in joined : c \in Schema[t]
        /\ st.star \in joined
        /\ st.where.table \in joined
        /\ st.where.column \in Schema[st.where.table]
        /\ joined \subseteq ActiveLoadTables
        /\ joined \subseteq DOMAIN db
        /\ qcPc # "raised"

\* qcSummary has run on paired data without the library-complexity task, and
\* has joined the insert size table but not the library-complexity table
C17_Witness ==
    /\ qcPc = "done"
    /\ PAIRED
    /\ ~run_estimateLibraryComplexity
    /\ "qc_insert_size_metrics" \in statement_tables(Statement)
    /\ "qc_library_complexity" \notin statement_tables(Statement)
    /\ qc_summary # {}

\* the jobs a generator yields for a sample
JobsOf(generator, id) ==
    {i \in DOMAIN generator : generator[i].sample_id = id}

\* every job of the generator is for a sample of the table, and distinct
\* jobs share no sentinel path
WellFormed(generator) ==
    /\ \A i \in DOMAIN generator : generator[i].sample_id \in DOMAIN samples
    /\ \A i, k \in DOMAIN generator :
          i # k => Range(sentinels(generator[i]))
                   \cap Range(sentinels(generator[k])) = {}

\* C19: for every sample table, estimate_library_complexity_jobs and
\* insert_size_jobs yield exactly one job for each sample whose paired flag
\* is true and none for any other sample; collect_rna_seq_metrics_jobs,
\* alignment_summary_metrics_jobs and fraction_spliced_jobs yield exactly one
\* job for every sample; within one generator the sentinel paths of distinct
\* samples are distinct.
C19_GeneratorsYieldOneJobPerSample ==
    /\ \A generator \in {estimate_library_complexity_jobs, insert_size_jobs} :
          /\ WellFormed(generator)
          /\ \A id \in DOMAIN samples :
                Cardinality(JobsOf(generator, id)) =
                    IF samples[id].paired THEN 1 ELSE 0
    /\ \A generator \in {collect_rna_seq_metrics_jobs,
                         alignment_summary_metrics_jobs,
                         fraction_spliced_jobs} :
          /\ WellFormed(generator)
          /\ \A id \in DOMAIN samples :
                Cardinality(JobsOf(generator, id)) = 1

\* with one paired and one unpaired sample, the insert size job of the
\* paired sample and the rna seq metrics job of the unpaired one have run
C19_Witness ==
    \E p, u \in DOMAIN samples :
        /\ samples[p].paired
        /\ ~samples[u].paired
        /\ [task |-> "insertSizeMetricsAndHistograms", sample_id |-> p] \in ran
        /\ [task |-> "collectRnaSeqMetrics", sample_id |-> u] \in ran
        /\ Len(insert_size_jobs) = 1
        /\ Len(collect_rna_seq_metrics_jobs) = 2

====
